---- MODULE Spec2Model ----
(***************************************************************************)
(* A model of the cocktail calculator: the Cocktail entity and its          *)
(* technique extraction and similarity score, the CocktailGraph built from  *)
(* a catalogue of rows, and the queries served over the built graph         *)
(* (src/DataStructure.py, src/main.py), together with the earlier           *)
(* ingredient class of src/Cocktail.py.                                     *)
(*                                                                         *)
(* Python strings are sequences of one-character strings, so that the       *)
(* regular expression, str.split, sorted and difflib act on characters.     *)
(***************************************************************************)
EXTENDS Integers, Sequences, FiniteSets, TLC

VARIABLES
    rows,       \* the rows of the csv file still to be read by the loader
    cocktails,  \* self.cocktails, the entities constructed so far
    nodes,      \* self.graph.nodes: node name -> the entity stored as 'data'
    edges,      \* self.graph edges: {a, b} -> weight
    pc,         \* where the construction of the CocktailGraph stands
    i,          \* index of the outer loop of build_graph
    j,          \* index of the inner loop of build_graph
    out         \* what the last operation returned, printed or raised

vars == <<rows, cocktails, nodes, edges, pc, i, j, out>>

----------------------------------------------------------------------------
(* Characters and strings                                                  *)

\* Python's None; no string, since every element of a string is one character
None == <<"<None>">>

\* an attribute that was never assigned (reading it raises AttributeError)
Unset == <<"<unset>">>

Upper ==
    {"A","B","C","D","E","F","G","H","I","J","K","L","M",
     "N","O","P","Q","R","S","T","U","V","W","X","Y","Z"}

Lower ==
    {"a","b","c","d","e","f","g","h","i","j","k","l","m",
     "n","o","p","q","r","s","t","u","v","w","x","y","z"}

Digit == {"0","1","2","3","4","5","6","7","8","9"}

\* the characters the regular expression's \w matches
WordChar == Upper \cup Lower \cup Digit \cup {"_"}

\* the characters str.split() treats as separators
Whitespace == {" "}

\* the characters in the order of their code points
CodePoints ==
    <<" ", ",", "-", ".", "/",
      "0","1","2","3","4","5","6","7","8","9",
      "A","B","C","D","E","F","G","H","I","J","K","L","M",
      "N","O","P","Q","R","S","T","U","V","W","X","Y","Z",
      "_",
      "a","b","c","d","e","f","g","h","i","j","k","l","m",
      "n","o","p","q","r","s","t","u","v","w","x","y","z">>

ord(c) == CHOOSE k \in 1..Len(CodePoints) : CodePoints[k] = c

\* s < t for two Python strings
RECURSIVE StrLess(_, _)
StrLess(s, t) ==
    IF t = <<>> THEN FALSE
    ELSE IF s = <<>> THEN TRUE
    ELSE IF s[1] = t[1] THEN StrLess(Tail(s), Tail(t))
    ELSE ord(s[1]) < ord(t[1])

\* sorted(S) for a set S of strings
RECURSIVE sorted(_)
sorted(S) ==
    IF S = {} THEN <<>>
    ELSE LET m == CHOOSE x \in S : \A y \in S \ {x} : StrLess(x, y)
         IN  <<m>> \o sorted(S \ {m})

\* the set of the elements of a sequence
Range(s) == {s[k] : k \in 1..Len(s)}

\* all sequences over S of length at most n
SeqUpTo(S, n) == UNION {[1..k -> S] : k \in 0..n}

----------------------------------------------------------------------------
(* The technique vocabulary and the regular expression                     *)

SHAKE == <<"S","H","A","K","E">>
STIR == <<"S","T","I","R">>
MUDDLE == <<"M","U","D","D","L","E">>
STRAIN == <<"S","T","R","A","I","N">>
FLOAT == <<"F","L","O","A","T">>
LAYER == <<"L","A","Y","E","R">>
BUILD == <<"B","U","I","L","D">>
ROLL == <<"R","O","L","L">>
BLEND == <<"B","L","E","N","D">>
SWIZZLE == <<"S","W","I","Z","Z","L","E">>

cocktail_techniques ==
    {SHAKE, STIR, MUDDLE, STRAIN, FLOAT, LAYER, BUILD, ROLL, BLEND, SWIZZLE}

\* whether the character at position p of text is a word character;
\* positions outside the text are not
IsWordAt(text, p) == p \in 1..Len(text) /\ text[p] \in WordChar

\* \b holds before position p (p = Len(text) + 1 is the end of the text)
WordBoundary(text, p) == IsWordAt(text, p - 1) # IsWordAt(text, p)

\* the number of consecutive [A-Z] characters from position p on
RECURSIVE UpperRun(_, _)
UpperRun(text, p) ==
    IF p \in 1..Len(text) /\ text[p] \in Upper
    THEN 1 + UpperRun(text, p + 1)
    ELSE 0

\* the length of the match of \b[A-Z]{2,}\b starting at p, 0 when there is
\* none: the repetition is greedy and gives characters back until \b holds
MatchLenFrom(text, p, n) ==
    LET ok == {k \in 2..n : WordBoundary(text, p + k)}
    IN  IF ok = {} THEN 0 ELSE CHOOSE k \in ok : \A m \in ok : m <= k

\* the pattern written without its word boundaries, [A-Z]{2,}
MatchLen_NoBoundary(text, p) ==
    IF UpperRun(text, p) >= 2 THEN UpperRun(text, p) ELSE 0

MatchLen(text, p) ==
    IF WordBoundary(text, p) THEN MatchLenFrom(text, p, UpperRun(text, p)) ELSE 0

\* re.findall(r'\b[A-Z]{2,}\b', text) scanning from position p: the matches
\* from left to right, without overlap
RECURSIVE findall(_, _)
findall(text, p) ==
    IF p > Len(text) THEN <<>>
    ELSE LET n == MatchLen(text, p)
         IN  IF n = 0 THEN findall(text, p + 1)
             ELSE <<SubSeq(text, p, p + n - 1)>> \o findall(text, p + n)

\* the words of the text that are kept as techniques
TechniqueFilter(found) == {tech \in found : tech \in cocktail_techniques}

\* self.techniques = [tech for tech in set(findall) if tech in vocabulary]
\* or ["BUILD"]; the list has no repetition and its order is that of a set,
\* so it is modelled as the set of its elements
techniques_of(recipe) ==
    LET kept == TechniqueFilter(Range(findall(recipe, 1)))
    IN  IF kept = {} THEN {BUILD} ELSE kept

----------------------------------------------------------------------------
(* The Cocktail entity (src/DataStructure.py)                              *)

\* isinstance(x, str)
isinstance_str(x) == \A k \in 1..Len(x) : x[k] \in Range(CodePoints)

\* "None", the string that stands for a missing garnish
NoneStr == <<"N","o","n","e">>

\* Cocktail.__init__; ingredients is a list of pairs <<amount, name>>
Cocktail_init(title, glass, garnish, recipe, ingredients) ==
    [name        |-> title,
     glass       |-> glass,
     garnish     |-> IF isinstance_str(garnish) THEN garnish ELSE NoneStr,
     recipe      |-> recipe,
     ingredients |-> ingredients,
     techniques  |-> techniques_of(recipe)]

\* set(i[1] for i in c.ingredients): the ingredient names of an entity
ingredient_names(c) == {c.ingredients[k][2] : k \in 1..Len(c.ingredients)}

\* the points one shared ingredient is worth
IngredientWeight == 3

\* the score with a shared ingredient worth no more than a shared technique
get_similarity_Unweighted(self, other) ==
    Cardinality(ingredient_names(self) \cap ingredient_names(other))
        + Cardinality(self.techniques \cap other.techniques)

\* Cocktail.get_similarity
get_similarity(self, other) ==
    LET shared_ingredients == ingredient_names(self) \cap ingredient_names(other)
        shared_techniques  == self.techniques \cap other.techniques
    IN  Cardinality(shared_ingredients) * IngredientWeight
            + Cardinality(shared_techniques)

----------------------------------------------------------------------------
(* Construction of the CocktailGraph                                       *)

\* self.threshold
threshold == 7

\* the float 1 / similarity, kept as the fraction it rounds
Reciprocal(similarity) == [num |-> 1, den |-> similarity]

\* Graph.add_node(name, data=cocktail): a node that exists keeps its edges
\* and has its data replaced
add_node(g, name, cocktail) ==
    [n \in (DOMAIN g) \cup {name} |-> IF n = name THEN cocktail ELSE g[n]]

\* Graph.add_edge(u, v, weight=w): one edge per unordered pair, the weight of
\* an edge that exists is replaced; u = v makes a self-loop
add_edge(e, u, v, w) ==
    [p \in (DOMAIN e) \cup {{u, v}} |-> IF p = {u, v} THEN w ELSE e[p]]

\* the test of build_graph on a pair of positions of self.cocktails
PairSelected(a, b) == a < b

\* the test of build_graph on the similarity of a pair
EdgeWanted(similarity) == similarity >= threshold

\* the name build_graph gives add_edge for an entity
EdgeEnd(cocktail) == cocktail.name

\* load_cocktails, one row of the file: the entity is constructed and appended
LoadRow ==
    /\ pc = "load"
    /\ rows # <<>>
    /\ LET row == Head(rows)
       IN  cocktails' = Append(cocktails,
               Cocktail_init(row.title, row.glass, row.garnish, row.recipe,
                             row.ingredients))
    /\ rows' = Tail(rows)
    /\ UNCHANGED <<nodes, edges, pc, i, j, out>>

\* load_cocktails returns and build_graph starts
LoadDone ==
    /\ pc = "load"
    /\ rows = <<>>
    /\ pc' = "add_nodes"
    /\ i' = 1
    /\ UNCHANGED <<rows, cocktails, nodes, edges, j, out>>

\* build_graph, first loop: one node per entity, keyed by its name
AddNode ==
    /\ pc = "add_nodes"
    /\ i <= Len(cocktails)
    /\ nodes' = add_node(nodes, cocktails[i].name, cocktails[i])
    /\ i' = i + 1
    /\ UNCHANGED <<rows, cocktails, edges, pc, j, out>>

AddNodesDone ==
    /\ pc = "add_nodes"
    /\ i > Len(cocktails)
    /\ pc' = "add_edges"
    /\ i' = 1
    /\ j' = 1
    /\ UNCHANGED <<rows, cocktails, nodes, edges, out>>

\* build_graph, second loop: one pass of the inner loop body
AddEdgeStep ==
    /\ pc = "add_edges"
    /\ i <= Len(cocktails)
    /\ j <= Len(cocktails)
    /\ LET cocktail1  == cocktails[i]
           cocktail2  == cocktails[j]
           similarity == get_similarity(cocktail1, cocktail2)
       IN  edges' = IF PairSelected(i, j) /\ EdgeWanted(similarity)
                    THEN add_edge(edges, EdgeEnd(cocktail1), EdgeEnd(cocktail2),
                                  Reciprocal(similarity))
                    ELSE edges
    /\ IF j < Len(cocktails)
       THEN /\ j' = j + 1
            /\ i' = i
       ELSE /\ j' = 1
            /\ i' = i + 1
    /\ UNCHANGED <<rows, cocktails, nodes, pc, out>>

\* build_graph returns: the graph is built and queries are served
BuildDone ==
    /\ pc = "add_edges"
    /\ i > Len(cocktails)
    /\ pc' = "ready"
    /\ UNCHANGED <<rows, cocktails, nodes, edges, i, j, out>>

----------------------------------------------------------------------------
(* Fractions: the floats of the program are kept as the fractions they round *)

RatLess(a, b) == a.num * b.den < b.num * a.den

RatAdd(a, b) == [num |-> a.num * b.den + b.num * a.den, den |-> a.den * b.den]

Zero == [num |-> 0, den |-> 1]

\* the sum of f[x] over the set S
RECURSIVE RatSum(_, _)
RatSum(f, S) ==
    IF S = {} THEN Zero
    ELSE LET x == CHOOSE y \in S : TRUE
         IN  RatAdd(f[x], RatSum(f, S \ {x}))

\* the formats :.4f and :.2f, as the power of ten of their last place
FourPlaces == 10000

TwoPlaces == 100

\* f"{r:.4f}" (places = 10000) or f"{r:.2f}" (places = 100): the count of
\* units of the last place, rounded half to even
Format(r, places) ==
    LET q   == (r.num * places) \div r.den
        rem == (r.num * places) % r.den
    IN  IF 2 * rem > r.den \/ (2 * rem = r.den /\ q % 2 = 1) THEN q + 1 ELSE q

----------------------------------------------------------------------------
(* The queries of CocktailGraph                                            *)

Result(op, args, raised, value, printed) ==
    [op |-> op, args |-> args, raised |-> raised, value |-> value,
     printed |-> printed]

\* nothing has been asked yet
NoResult == Result("", <<>>, "", None, <<>>)

NodeNames == DOMAIN nodes

\* name in self.graph.nodes
HasNode(name) == name \in NodeNames

\* CocktailGraph.cocktail_exists
cocktail_exists(cocktail_name) == HasNode(cocktail_name)

\* SequenceMatcher.find_longest_match(0, len(a), 0, len(b)) without junk:
\* <<x, y, k>> with a[x..x+k-1] = b[y..y+k-1], k the largest, then x the
\* smallest, then y the smallest; k = 0 when nothing matches
find_longest_match(a, b) ==
    LET cand == {c \in (1..Len(a)) \X (1..Len(b)) \X (1..Len(a)) :
                    /\ c[1] + c[3] - 1 <= Len(a)
                    /\ c[2] + c[3] - 1 <= Len(b)
                    /\ SubSeq(a, c[1], c[1] + c[3] - 1)
                         = SubSeq(b, c[2], c[2] + c[3] - 1)}
    IN  IF cand = {} THEN <<1, 1, 0>>
        ELSE CHOOSE c \in cand : \A d \in cand :
                \/ d[3] < c[3]
                \/ d[3] = c[3] /\ c[1] < d[1]
                \/ d[3] = c[3] /\ c[1] = d[1] /\ c[2] <= d[2]

\* the matched characters of SequenceMatcher.get_matching_blocks: the longest
\* block, then the same to its left and to its right
RECURSIVE matches(_, _)
matches(a, b) ==
    LET m == find_longest_match(a, b)
    IN  IF m[3] = 0 THEN 0
        ELSE m[3]
             + matches(SubSeq(a, 1, m[1] - 1), SubSeq(b, 1, m[2] - 1))
             + matches(SubSeq(a, m[1] + m[3], Len(a)),
                       SubSeq(b, m[2] + m[3], Len(b)))

\* SequenceMatcher(None, a, b).ratio(): 2.0 * matches / (len(a) + len(b))
ratio(a, b) ==
    IF Len(a) + Len(b) = 0 THEN [num |-> 1, den |-> 1]
    ELSE [num |-> 2 * matches(a, b), den |-> Len(a) + Len(b)]

\* cutoff=0.6
cutoff == [num |-> 6, den |-> 10]

\* n=5
MaxMatches == 5

\* heapq.nlargest(n, S) for a set S of <<score, x>>: by score, then by x
RECURSIVE nlargest(_, _)
nlargest(n, S) ==
    IF n = 0 \/ S = {} THEN <<>>
    ELSE LET m == CHOOSE c \in S : \A d \in S \ {c} :
                      \/ RatLess(d[1], c[1])
                      \/ ~RatLess(c[1], d[1]) /\ StrLess(d[2], c[2])
         IN  <<m>> \o nlargest(n - 1, S \ {m})

\* difflib.get_close_matches(word, possibilities, n, cutoff)
get_close_matches(word, possibilities) ==
    LET result == {<<ratio(x, word), x>> : x \in
                      {y \in possibilities : ~RatLess(ratio(y, word), cutoff)}}
        best   == nlargest(MaxMatches, result)
    IN  [k \in 1..Len(best) |-> best[k][2]]

\* CocktailGraph.fuzzy_search_cocktail
fuzzy_search_cocktail(cocktail_name) ==
    get_close_matches(cocktail_name, NodeNames)

\* whether the graph has the edge {a, b}
HasEdge(a, b) == {a, b} \in DOMAIN edges

\* the paths of the graph from source to target that visit no node twice
SimplePaths(source, target) ==
    {p \in SeqUpTo(NodeNames, Cardinality(NodeNames)) :
        /\ Len(p) >= 1
        /\ p[1] = source
        /\ p[Len(p)] = target
        /\ \A k, m \in 1..Len(p) : k # m => p[k] # p[m]
        /\ \A k \in 1..(Len(p) - 1) : HasEdge(p[k], p[k + 1])}

\* the sum of the 'weight' of the edges of a path
RECURSIVE PathWeight(_)
PathWeight(p) ==
    IF Len(p) <= 1 THEN Zero
    ELSE RatAdd(edges[{p[1], p[2]}], PathWeight(Tail(p)))

\* the call without weight='weight': the path of the fewest edges
nx_shortest_path_Hops(source, target) ==
    IF ~HasNode(source)
    THEN {[raised |-> "NodeNotFound", value |-> None]}
    ELSE IF ~HasNode(target)
    THEN {[raised |-> "NodeNotFound", value |-> None],
          [raised |-> "NetworkXNoPath", value |-> None]}
    ELSE LET paths == SimplePaths(source, target)
         IN  IF paths = {}
             THEN {[raised |-> "NetworkXNoPath", value |-> None]}
             ELSE {[raised |-> "", value |-> p] : p \in
                     {q \in paths : \A r \in paths : Len(q) <= Len(r)}}

\* nx.shortest_path(G, source, target, weight='weight'): the outcomes the
\* library can produce.  A source that is no node raises NodeNotFound; a
\* target that is no node raises NodeNotFound (bidirectional_dijkstra) or
\* NetworkXNoPath (dijkstra_path), by the version of the library; among paths
\* of the same least weight the choice is the library's
nx_shortest_path(source, target) ==
    IF ~HasNode(source)
    THEN {[raised |-> "NodeNotFound", value |-> None]}
    ELSE IF ~HasNode(target)
    THEN {[raised |-> "NodeNotFound", value |-> None],
          [raised |-> "NetworkXNoPath", value |-> None]}
    ELSE LET paths == SimplePaths(source, target)
         IN  IF paths = {}
             THEN {[raised |-> "NetworkXNoPath", value |-> None]}
             ELSE {[raised |-> "", value |-> p] : p \in
                     {q \in paths : \A r \in paths :
                         ~RatLess(PathWeight(r), PathWeight(q))}}

\* the except clause of find_shortest_path: what it turns into a return of None
Caught(raised) == raised = "NetworkXNoPath"

\* CocktailGraph.find_shortest_path: the outcomes, each a raised exception
\* ("" for none) and a returned value
find_shortest_path(cocktail1, cocktail2) ==
    {IF Caught(r.raised) THEN [raised |-> "", value |-> None] ELSE r :
        r \in nx_shortest_path(cocktail1, cocktail2)}

\* the strings of the difference table
X == <<"X">>

Empty == <<>>

Element == <<"E","l","e","m","e","n","t">>

IngredientsTitle ==
    <<"-","-","-"," ","I","N","G","R","E","D","I","E","N","T","S"," ","-","-","-">>

TechniquesTitle ==
    <<"-","-","-"," ","T","E","C","H","N","I","Q","U","E","S"," ","-","-","-">>

\* the position of the first name that is no node, 0 when all are nodes
FirstUnknown(cocktail_names) ==
    LET unknown == {k \in 1..Len(cocktail_names) : ~HasNode(cocktail_names[k])}
    IN  IF unknown = {} THEN 0
        ELSE CHOOSE k \in unknown : \A m \in unknown : k <= m

\* {i[1]: i[0] for i in cocktail.ingredients}: a later entry of the same
\* ingredient replaces an earlier one
ingredients_dict(cocktail) ==
    [n \in ingredient_names(cocktail) |->
        LET at   == {k \in 1..Len(cocktail.ingredients) :
                        cocktail.ingredients[k][2] = n}
            last == CHOOSE k \in at : \A m \in at : m <= k
        IN  cocktail.ingredients[last][1]]

\* the lookup with an empty cell, not "X", for an ingredient that is absent
AmountCell_Blank(ingredients, ingredient) ==
    IF ingredient \in DOMAIN ingredients THEN ingredients[ingredient] ELSE Empty

\* ingredients.get(ingredient, "X")
AmountCell(ingredients, ingredient) ==
    IF ingredient \in DOMAIN ingredients THEN ingredients[ingredient] ELSE X

\* technique if technique in techniques else "X"
TechniqueCell(techniques, technique) ==
    IF technique \in techniques THEN technique ELSE X

\* the rows of the ingredients section, in the order of the table
IngredientRows(all_ingredients, cocktail_ingredients) ==
    [r \in 1..Len(all_ingredients) |->
        <<all_ingredients[r]>> \o
        [k \in 1..Len(cocktail_ingredients) |->
            AmountCell(cocktail_ingredients[k], all_ingredients[r])]]

\* the rows of the techniques section, in the order of the table
TechniqueRows(all_techniques, cocktail_techniques_) ==
    [r \in 1..Len(all_techniques) |->
        <<all_techniques[r]>> \o
        [k \in 1..Len(cocktail_techniques_) |->
            TechniqueCell(cocktail_techniques_[k], all_techniques[r])]]

\* the table display_cocktail_difference hands to tabulate, for names that
\* are all nodes
DifferenceTable(cocktail_names) ==
    LET selected == [k \in 1..Len(cocktail_names) |-> nodes[cocktail_names[k]]]
        cocktail_ingredients ==
            [k \in 1..Len(selected) |-> ingredients_dict(selected[k])]
        cocktail_techniques_ ==
            [k \in 1..Len(selected) |-> selected[k].techniques]
        all_ingredients ==
            sorted(UNION {DOMAIN cocktail_ingredients[k] : k \in 1..Len(selected)})
        all_techniques ==
            sorted(UNION {cocktail_techniques_[k] : k \in 1..Len(selected)})
        blanks == [k \in 1..Len(cocktail_names) |-> Empty]
    IN  [kind    |-> "table",
         headers |-> <<Element>> \o cocktail_names,
         table   |-> <<<<IngredientsTitle>> \o blanks>>
                     \o IngredientRows(all_ingredients, cocktail_ingredients)
                     \o <<<<TechniquesTitle>> \o blanks>>
                     \o TechniqueRows(all_techniques, cocktail_techniques_)]

\* print(f"Error: '{name}' not found in the graph.")
NotFoundMessage(name) == [kind |-> "error_not_found", name |-> name]

\* the lookup loop left by break, not by return: the error is printed and
\* the table of the names resolved before it follows
display_cocktail_difference_Partial(cocktail_names) ==
    LET k == FirstUnknown(cocktail_names)
    IN  IF k # 0
        THEN <<NotFoundMessage(cocktail_names[k]),
               DifferenceTable(SubSeq(cocktail_names, 1, k - 1))>>
        ELSE <<DifferenceTable(cocktail_names)>>

\* display_cocktail_difference, the method of CocktailGraph and the function
\* of main.py, which have the same body: what is printed
display_cocktail_difference(cocktail_names) ==
    LET k == FirstUnknown(cocktail_names)
    IN  IF k # 0
        THEN <<NotFoundMessage(cocktail_names[k])>>
        ELSE <<DifferenceTable(cocktail_names)>>

\* sep.join(parts)
RECURSIVE join(_, _)
join(sep, parts) ==
    IF parts = <<>> THEN <<>>
    ELSE IF Len(parts) = 1 THEN parts[1]
    ELSE parts[1] \o sep \o join(sep, Tail(parts))

\* Cocktail.print_cocktail: what is printed
print_cocktail(self) ==
    <<[kind        |-> "cocktail",
       name        |-> self.name,
       glass       |-> self.glass,
       garnish     |-> self.garnish,
       ingredients |-> join(<<",", " ">>,
                            [k \in 1..Len(self.ingredients) |->
                                self.ingredients[k][2] \o <<" ">>
                                    \o self.ingredients[k][1]]),
       recipe      |-> self.recipe]>>

\* the neighbours of a node (the node itself when it has a self-loop)
Neighbours(v) == {w \in NodeNames : HasEdge(v, w)}

\* Graph.degree: a self-loop counts twice
degree(v) ==
    Cardinality(Neighbours(v) \ {v}) + (IF HasEdge(v, v) THEN 2 ELSE 0)

\* nx.density
density ==
    LET n == Cardinality(NodeNames)
        m == Cardinality(DOMAIN edges)
    IN  IF m = 0 \/ n <= 1 THEN Zero
        ELSE [num |-> 2 * m, den |-> n * (n - 1)]

\* the nodes reachable from the nodes of S
RECURSIVE Reach(_)
Reach(S) ==
    LET more == S \cup UNION {Neighbours(v) : v \in S}
    IN  IF more = S THEN S ELSE Reach(more)

\* nx.number_connected_components
number_connected_components == Cardinality({Reach({v}) : v \in NodeNames})

\* nx.clustering of one node: self-loops are left out
clustering(v) ==
    LET vs == Neighbours(v) \ {v}
        d  == Cardinality(vs)
        t  == Cardinality({p \in vs \X vs : p[1] # p[2] /\ HasEdge(p[1], p[2])})
    IN  IF t = 0 THEN Zero ELSE [num |-> t, den |-> d * (d - 1)]

\* CocktailGraph.print_graph_summary: what is printed, and the exception of
\* the lines that divide by the number of nodes when the graph has none
print_graph_summary ==
    LET n     == Cardinality(NodeNames)
        head  == <<[kind |-> "threshold", value |-> threshold],
                   [kind |-> "title"],
                   [kind |-> "nodes", value |-> n],
                   [kind |-> "edges", value |-> Cardinality(DOMAIN edges)],
                   [kind |-> "density", value |-> Format(density, FourPlaces)],
                   [kind |-> "components", value |-> number_connected_components]>>
        total == RatSum([v \in NodeNames |-> clustering(v)], NodeNames)
        deg   == RatSum([v \in NodeNames |-> [num |-> degree(v), den |-> 1]],
                        NodeNames)
    IN  IF n = 0
        THEN [raised |-> "ZeroDivisionError", printed |-> head]
        ELSE [raised  |-> "",
              printed |-> head \o
                 <<[kind  |-> "clustering",
                    value |-> Format([num |-> total.num, den |-> total.den * n],
                                     FourPlaces)],
                   [kind  |-> "degree",
                    value |-> Format([num |-> deg.num, den |-> deg.den * n],
                                     TwoPlaces)]>>]

----------------------------------------------------------------------------
(* The functions of main.py                                                *)

\* search_cocktail: what is printed
search_cocktail(cocktail_name) ==
    IF HasNode(cocktail_name)
    THEN print_cocktail(nodes[cocktail_name])
    ELSE LET found == fuzzy_search_cocktail(cocktail_name)
         IN  <<[kind |-> "error_searching", name |-> cocktail_name]>> \o
             IF found = <<>>
             THEN <<[kind |-> "no_close_matches", name |-> cocktail_name]>>
             ELSE <<[kind |-> "did_you_mean", name |-> cocktail_name]>> \o
                  [k \in 1..Len(found) |->
                      [kind |-> "match", index |-> k, name |-> found[k]]]

\* find_shortest_path of main.py on one outcome r of the method: a raised
\* exception goes through; "if path" is false for None
main_find_shortest_path(cocktail1, cocktail2, r) ==
    IF r.raised # ""
    THEN [raised |-> r.raised, printed |-> <<>>]
    ELSE IF r.value # None
    THEN [raised  |-> "",
          printed |-> <<[kind |-> "path", from |-> cocktail1, to |-> cocktail2,
                         path |-> r.value]>>
                      \o display_cocktail_difference(r.value)]
    ELSE [raised  |-> "",
          printed |-> <<[kind |-> "no_path", from |-> cocktail1,
                         to |-> cocktail2]>>]

----------------------------------------------------------------------------
(* The earlier classes of src/Cocktail.py                                  *)

\* amount.split(): the pieces between runs of whitespace
RECURSIVE split(_)
split(s) ==
    IF s = <<>> THEN <<>>
    ELSE IF s[1] \in Whitespace THEN split(Tail(s))
    ELSE LET stops == {k \in 1..Len(s) : s[k] \in Whitespace}
             stop  == IF stops = {} THEN Len(s) + 1
                      ELSE CHOOSE k \in stops : \A m \in stops : k <= m
         IN  <<SubSeq(s, 1, stop - 1)>> \o split(SubSeq(s, stop, Len(s)))

\* cocktail_ingredients.__init__: the attributes of the object made.  Each
\* assignment of the try block that is reached before the IndexError stays;
\* the except block sets unit and leaves amount as it is
cocktail_ingredients_init(amount, ingredient) ==
    LET tokens == split(amount)
    IN  [ingredient |-> ingredient,
         amount     |-> IF Len(tokens) >= 1 THEN tokens[1] ELSE Unset,
         unit       |-> IF Len(tokens) >= 2 THEN tokens[2] ELSE None]

\* Cocktail.__init__ of src/Cocktail.py
Cocktail_py_init(title, glass, garnish, recipe, ingredients) ==
    [name        |-> title,
     glass       |-> glass,
     garnish     |-> garnish,
     recipe      |-> recipe,
     technique   |-> Range(findall(recipe, 1)),
     ingredients |-> [k \in 1..Len(ingredients) |->
                        cocktail_ingredients_init(ingredients[k][1],
                                                  ingredients[k][2])]]

----------------------------------------------------------------------------
(* Bounds and the inputs drawn within them                                 *)

\* the longest catalogue
MaxCocktails == 3

\* the longest list of names given to display_cocktail_difference
MaxNames == 2

\* the most fragments a recipe text is made of
MaxFragments == 4

\* the longest ingredient list of an entity constructed on its own
MaxIngredients == 2

\* the longest raw amount string, in characters
MaxAmountLen == 3

\* the longest raw ingredient list given to the earlier Cocktail class
MaxItems == 2

Mai == <<"M","a","i">>
Mia == <<"M","i","a">>
Rob == <<"R","o","b">>
Mao == <<"M","a","o">>

gin == <<"g","i","n">>
lime == <<"l","i","m","e">>
rum == <<"r","u","m">>

oz1 == <<"1"," ","o","z">>
oz2 == <<"2"," ","o","z">>

Coupe == <<"C","o","u","p","e">>

Row(title, garnish, recipe, ingredients) ==
    [title |-> title, glass |-> Coupe, garnish |-> garnish, recipe |-> recipe,
     ingredients |-> ingredients]

\* the rows a catalogue is made of: two of them carry the same name, two
\* pairs of them score 7 or more, one lists an ingredient twice
RowPool ==
    {Row(Mai, lime, SHAKE, <<<<oz2, gin>>, <<oz1, lime>>, <<oz1, rum>>>>),
     Row(Mia, NoneStr, SHAKE \o <<" ","i","t">>, <<<<oz1, gin>>, <<oz2, lime>>>>),
     Row(Rob, lime, STIR \o <<".">>, <<<<oz2, gin>>, <<oz1, lime>>, <<oz2, rum>>>>),
     Row(Mai, NoneStr, <<"s","t","i","r">>, <<<<oz1, rum>>, <<oz2, rum>>>>),
     Row(Rob, NoneStr, <<"W","e"," ">> \o SHAKE, <<<<oz1, lime>>, <<oz1, gin>>>>)}

\* the names the queries are asked about: Mao is never a node
QueryNames == {Mai, Mia, Rob, Mao}

\* the pieces recipe texts are made of
Fragments == {SHAKE, STIR, BUILD, <<"X">>, <<"a">>, <<"_">>, <<" ">>, <<",">>}

\* the concatenation of a sequence of strings
RECURSIVE concat(_)
concat(parts) == IF parts = <<>> THEN <<>> ELSE Head(parts) \o concat(Tail(parts))

RecipeTexts == {concat(f) : f \in SeqUpTo(Fragments, MaxFragments)}

IngredientPool == {<<oz1, gin>>, <<oz2, gin>>, <<oz1, lime>>}

\* raw amount strings: every string of at most MaxAmountLen of these characters
RawAmounts == SeqUpTo({"2", "z", " "}, MaxAmountLen)

----------------------------------------------------------------------------
(* The catalogue is loaded, the graph is built, queries are served         *)

Init ==
    /\ rows \in SeqUpTo(RowPool, MaxCocktails)
    /\ cocktails = <<>>
    /\ nodes = <<>>
    /\ edges = <<>>
    /\ pc = "load"
    /\ i = 1
    /\ j = 1
    /\ out = NoResult

\* a query reads the graph and gives its answer to the caller
Answered ==
    /\ pc' = "answered"
    /\ UNCHANGED <<rows, cocktails, nodes, edges, i, j>>

CocktailExists(name) ==
    /\ pc = "ready"
    /\ out' = Result("cocktail_exists", <<name>>, "", cocktail_exists(name), <<>>)
    /\ Answered

FuzzySearchCocktail(name) ==
    /\ pc = "ready"
    /\ out' = Result("fuzzy_search_cocktail", <<name>>, "",
                     fuzzy_search_cocktail(name), <<>>)
    /\ Answered

FindShortestPath(cocktail1, cocktail2) ==
    /\ pc = "ready"
    /\ \E r \in find_shortest_path(cocktail1, cocktail2) :
          out' = Result("find_shortest_path", <<cocktail1, cocktail2>>,
                        r.raised, r.value, <<>>)
    /\ Answered

\* the lookup written as get-or-create: a name that is no node is added
DisplayCocktailDifference_GetOrCreate(cocktail_names) ==
    /\ pc = "ready"
    /\ out' = Result("display_cocktail_difference", <<cocktail_names>>, "", None,
                     display_cocktail_difference(cocktail_names))
    /\ nodes' = [n \in NodeNames \cup Range(cocktail_names) |->
                    IF n \in NodeNames THEN nodes[n] ELSE None]
    /\ pc' = "answered"
    /\ UNCHANGED <<rows, cocktails, edges, i, j>>

DisplayCocktailDifference(cocktail_names) ==
    /\ pc = "ready"
    /\ out' = Result("display_cocktail_difference", <<cocktail_names>>, "", None,
                     display_cocktail_difference(cocktail_names))
    /\ Answered

\* random.choice(self.cocktails): any entity of the list, IndexError when
\* the list is empty
GetRandomCocktail ==
    /\ pc = "ready"
    /\ \/ /\ cocktails = <<>>
          /\ out' = Result("get_random_cocktail", <<>>, "IndexError", None, <<>>)
       \/ \E k \in 1..Len(cocktails) :
             out' = Result("get_random_cocktail", <<>>, "", cocktails[k], <<>>)
    /\ Answered

PrintGraphSummary ==
    /\ pc = "ready"
    /\ out' = Result("print_graph_summary", <<>>, print_graph_summary.raised,
                     None, print_graph_summary.printed)
    /\ Answered

\* print_random_cocktail of main.py
PrintRandomCocktail ==
    /\ pc = "ready"
    /\ \/ /\ cocktails = <<>>
          /\ out' = Result("main.print_random_cocktail", <<>>, "IndexError",
                           None, <<>>)
       \/ \E k \in 1..Len(cocktails) :
             out' = Result("main.print_random_cocktail", <<>>, "", None,
                           print_cocktail(cocktails[k]))
    /\ Answered

SearchCocktail(name) ==
    /\ pc = "ready"
    /\ out' = Result("main.search_cocktail", <<name>>, "", None,
                     search_cocktail(name))
    /\ Answered

MainDisplayCocktailDifference(cocktail_names) ==
    /\ pc = "ready"
    /\ out' = Result("main.display_cocktail_difference", <<cocktail_names>>, "",
                     None, display_cocktail_difference(cocktail_names))
    /\ Answered

MainFindShortestPath(cocktail1, cocktail2) ==
    /\ pc = "ready"
    /\ \E r \in find_shortest_path(cocktail1, cocktail2) :
          LET m == main_find_shortest_path(cocktail1, cocktail2, r)
          IN  out' = Result("main.find_shortest_path", <<cocktail1, cocktail2>>,
                            m.raised, None, m.printed)
    /\ Answered

\* the loop of main(): the answer has been shown and the next choice is read
NextChoice ==
    /\ pc = "answered"
    /\ pc' = "ready"
    /\ out' = NoResult
    /\ UNCHANGED <<rows, cocktails, nodes, edges, i, j>>

Next ==
    \/ LoadRow
    \/ LoadDone
    \/ AddNode
    \/ AddNodesDone
    \/ AddEdgeStep
    \/ BuildDone
    \/ \E name \in QueryNames : CocktailExists(name)
    \/ \E name \in QueryNames : FuzzySearchCocktail(name)
    \/ \E a, b \in QueryNames : FindShortestPath(a, b)
    \/ \E names \in SeqUpTo(QueryNames, MaxNames) : DisplayCocktailDifference(names)
    \/ GetRandomCocktail
    \/ PrintGraphSummary
    \/ PrintRandomCocktail
    \/ \E name \in QueryNames : SearchCocktail(name)
    \/ \E names \in SeqUpTo(QueryNames, MaxNames) :
          MainDisplayCocktailDifference(names)
    \/ \E a, b \in QueryNames : MainFindShortestPath(a, b)
    \/ NextChoice

Spec == Init /\ [][Next]_vars

----------------------------------------------------------------------------
(* Entities constructed on their own: technique extraction, similarity     *)

\* every recipe text within the bound, in one row each
InitTechniques ==
    /\ rows \in {<<Row(Mai, NoneStr, text, <<<<oz1, gin>>>>)>> : text \in RecipeTexts}
    /\ cocktails = <<>>
    /\ nodes = <<>>
    /\ edges = <<>>
    /\ pc = "load"
    /\ i = 1
    /\ j = 1
    /\ out = NoResult

NextTechniques == LoadRow

SpecTechniques == InitTechniques /\ [][NextTechniques]_vars

\* the rows the entities of a similarity are constructed from
SimilarityRows ==
    {Row(Mai, NoneStr, text, ingredients) :
        text \in {SHAKE, SHAKE \o <<" ">> \o STIR, <<"s","t","i","r">>},
        ingredients \in SeqUpTo(IngredientPool, MaxIngredients)}

InitSimilarity ==
    /\ rows \in [1..1 -> SimilarityRows] \cup [1..2 -> SimilarityRows]
    /\ cocktails = <<>>
    /\ nodes = <<>>
    /\ edges = <<>>
    /\ pc = "load"
    /\ i = 1
    /\ j = 1
    /\ out = NoResult

\* cocktails[a].get_similarity(cocktails[b])
GetSimilarity(a, b) ==
    /\ pc = "load"
    /\ rows = <<>>
    /\ out' = Result("get_similarity", <<a, b>>, "",
                     get_similarity(cocktails[a], cocktails[b]), <<>>)
    /\ UNCHANGED <<rows, cocktails, nodes, edges, pc, i, j>>

NextSimilarity ==
    \/ LoadRow
    \/ \E a, b \in 1..Len(cocktails) : GetSimilarity(a, b)

SpecSimilarity == InitSimilarity /\ [][NextSimilarity]_vars

----------------------------------------------------------------------------
(* The earlier Cocktail class constructed from raw ingredient pairs        *)

RawItems == {<<amount, gin>> : amount \in RawAmounts}

InitLegacy ==
    /\ rows \in {<<Row(Mai, NoneStr, SHAKE, items)>> :
                    items \in SeqUpTo(RawItems, MaxItems)}
    /\ cocktails = <<>>
    /\ nodes = <<>>
    /\ edges = <<>>
    /\ pc = "legacy"
    /\ i = 1
    /\ j = 1
    /\ out = NoResult

\* Cocktail(...) of src/Cocktail.py on one row: every pair of the row goes
\* through cocktail_ingredients.__init__
ConstructLegacy ==
    /\ pc = "legacy"
    /\ rows # <<>>
    /\ LET row == Head(rows)
       IN  out' = Result("Cocktail.py:Cocktail", <<row>>, "",
                         Cocktail_py_init(row.title, row.glass, row.garnish,
                                          row.recipe, row.ingredients), <<>>)
    /\ rows' = Tail(rows)
    /\ UNCHANGED <<cocktails, nodes, edges, pc, i, j>>

NextLegacy == ConstructLegacy

SpecLegacy == InitLegacy /\ [][NextLegacy]_vars

----------------------------------------------------------------------------
(* Properties of the built graph                                           *)

\* build_graph has returned
Built == pc \in {"ready", "answered"}

\* C1: once the graph is built, two distinct node names are joined by an
\* edge exactly when the entities stored at the two nodes score 7 or more
C1_EdgeIffThreshold ==
    Built =>
        \A a, b \in NodeNames :
            a # b => (HasEdge(a, b) <=> get_similarity(nodes[a], nodes[b]) >= 7)

\* C2: the built graph is simple: no edge joins a node name to itself, and
\* every edge joins exactly two names (one edge per unordered pair)
C2_GraphIsSimple ==
    Built =>
        /\ \A a \in NodeNames : ~HasEdge(a, a)
        /\ \A p \in DOMAIN edges : Cardinality(p) = 2

\* whether a chain of edges leads from source to target
Connected(source, target) == target \in Reach({source})

\* C3: find_shortest_path returns None and raises nothing when the two names
\* are nodes that no chain of edges connects, and when either name is no node
C3_NotFoundIsAResult ==
    (/\ pc = "answered"
     /\ out.op = "find_shortest_path"
     /\ \/ ~HasNode(out.args[1])
        \/ ~HasNode(out.args[2])
        \/ ~Connected(out.args[1], out.args[2]))
    => (out.raised = "" /\ out.value = None)

\* C4: every edge of the built graph weighs 1 / score, score being the
\* similarity of the entities stored at its two ends, so that the weight is
\* more than 0 and at most 1/7
C4_WeightIsReciprocalScore ==
    Built =>
        \A p \in DOMAIN edges :
            \E a, b \in p :
                /\ p = {a, b}
                /\ edges[p] = [num |-> 1, den |-> get_similarity(nodes[a], nodes[b])]
                /\ edges[p].den > 0
                /\ RatLess(Zero, edges[p])
                /\ ~RatLess([num |-> 1, den |-> 7], edges[p])

----------------------------------------------------------------------------
(* Properties of the entity                                                *)

\* the similarity of an entity with itself has been computed
SelfSimilarity == out.op = "get_similarity" /\ out.args[1] = out.args[2]

\* C5, as stated: the similarity of an entity with itself is 3 times the
\* number of entries of its ingredient list plus the number of its techniques
C5_SelfSimilarityCountsEntries ==
    SelfSimilarity =>
        LET A == cocktails[out.args[1]]
        IN  out.value = 3 * Len(A.ingredients) + Cardinality(A.techniques)

\* C5, amended: the similarity of an entity with itself is 3 times the
\* number of distinct ingredient names of its list plus the number of its
\* techniques
C5_SelfSimilarityCountsNames ==
    SelfSimilarity =>
        LET A == cocktails[out.args[1]]
        IN  out.value =
                3 * Cardinality({A.ingredients[k][2] : k \in 1..Len(A.ingredients)})
                    + Cardinality(A.techniques)

\* an entity that lists an ingredient twice has been compared with itself
C5_Witness ==
    /\ SelfSimilarity
    /\ LET A == cocktails[out.args[1]]
       IN  \E k, m \in 1..Len(A.ingredients) :
               k # m /\ A.ingredients[k][2] = A.ingredients[m][2]

\* word stands in text at position p with no word character on either side
StandsAloneAt(text, word, p) ==
    /\ p + Len(word) - 1 <= Len(text)
    /\ SubSeq(text, p, p + Len(word) - 1) = word
    /\ (p = 1 \/ text[p - 1] \notin WordChar)
    /\ (p + Len(word) > Len(text) \/ text[p + Len(word)] \notin WordChar)

\* the vocabulary words that occur in text as tokens of their own
Occurring(text) ==
    {word \in cocktail_techniques :
        \E p \in 1..Len(text) : StandsAloneAt(text, word, p)}

\* C6: the techniques of a constructed entity are not empty, are words of
\* the vocabulary, and are exactly the vocabulary words that occur in the
\* recipe text as upper-case tokens of their own, or BUILD alone when none does
C6_TechniquesFromVocabulary ==
    \A k \in 1..Len(cocktails) :
        LET c == cocktails[k]
        IN  /\ c.techniques # {}
            /\ c.techniques \subseteq cocktail_techniques
            /\ \A t \in c.techniques : Len(t) >= 2 /\ Range(t) \subseteq Upper
            /\ c.techniques = IF Occurring(c.recipe) = {} THEN {BUILD}
                              ELSE Occurring(c.recipe)

\* word occurs somewhere in text
OccursIn(text, word) ==
    \E p \in 1..Len(text) :
        p + Len(word) - 1 <= Len(text) /\ SubSeq(text, p, p + Len(word) - 1) = word

\* an entity whose recipe holds one vocabulary word as a token of its own
\* and another one inside a longer word
C6_Witness ==
    \E k \in 1..Len(cocktails) :
        /\ Occurring(cocktails[k].recipe) # {}
        /\ \E word \in cocktail_techniques \ Occurring(cocktails[k].recipe) :
              OccursIn(cocktails[k].recipe, word)

\* the number of whitespace-separated tokens of s: the places where a token
\* starts
TokenCount(s) ==
    Cardinality({k \in 1..Len(s) :
        s[k] # " " /\ (k = 1 \/ s[k - 1] = " ")})

\* C7: an ingredient constructed from a raw amount of fewer than two tokens
\* has amount None and unit None and keeps its name, and nothing is raised
C7_ShortAmountGivesNulls ==
    out.op = "Cocktail.py:Cocktail" =>
        /\ out.raised = ""
        /\ \A k \in 1..Len(out.args[1].ingredients) :
              TokenCount(out.args[1].ingredients[k][1]) < 2 =>
                  /\ out.value.ingredients[k].amount = None
                  /\ out.value.ingredients[k].unit = None
                  /\ out.value.ingredients[k].ingredient
                        = out.args[1].ingredients[k][2]

----------------------------------------------------------------------------
(* Properties of the queries                                               *)

\* display_cocktail_difference, the method or the function, has answered
CompareAnswered ==
    /\ pc = "answered"
    /\ out.op \in {"display_cocktail_difference", "main.display_cocktail_difference"}

\* the names of the list that are no node
UnknownOf(names) == {names[k] : k \in {m \in 1..Len(names) : ~HasNode(names[m])}}

\* C8: when a name of the list is no node, wherever it stands in the list,
\* the comparison prints one error that names a name of the list that is no
\* node, and prints no table at all
C8_UnknownNameNoReport ==
    (CompareAnswered /\ UnknownOf(out.args[1]) # {}) =>
        /\ Len(out.printed) = 1
        /\ out.printed[1].kind = "error_not_found"
        /\ out.printed[1].name \in UnknownOf(out.args[1])
        /\ \A m \in 1..Len(out.printed) : out.printed[m].kind # "table"

\* a comparison whose unknown name comes after a name that is a node
C8_Witness ==
    /\ CompareAnswered
    /\ Len(out.args[1]) >= 2
    /\ HasNode(out.args[1][1])
    /\ ~HasNode(out.args[1][2])

\* C9: when every name is a node, the comparison prints one table: its
\* headers are "Element" and the names in input order, repetitions kept; its
\* ingredients section has one row per ingredient name of the selected
\* entities, in sorted order, whose cell for a cocktail is an amount the
\* cocktail lists for the ingredient, or "X" when it lists none; its
\* techniques section likewise holds the technique, or "X"
C9_TableOfAmounts ==
    (CompareAnswered /\ UnknownOf(out.args[1]) = {}) =>
        LET names == out.args[1]
            n     == Len(names)
            sel(k) == nodes[names[k]]
            amounts(k, label) ==
                {sel(k).ingredients[m][1] :
                    m \in {q \in 1..Len(sel(k).ingredients) :
                              sel(k).ingredients[q][2] = label}}
            ingNames == UNION {{sel(k).ingredients[m][2] :
                                  m \in 1..Len(sel(k).ingredients)} : k \in 1..n}
            techs == UNION {sel(k).techniques : k \in 1..n}
            ni == Cardinality(ingNames)
            nt == Cardinality(techs)
        IN  /\ Len(out.printed) = 1
            /\ out.printed[1].kind = "table"
            /\ out.printed[1].headers = <<Element>> \o names
            /\ LET t == out.printed[1].table
               IN  /\ Len(t) = ni + nt + 2
                   /\ \A r \in 1..Len(t) : Len(t[r]) = n + 1
                   /\ t[1][1] = IngredientsTitle
                   /\ t[ni + 2][1] = TechniquesTitle
                   /\ {t[1 + r][1] : r \in 1..ni} = ingNames
                   /\ \A r \in 1..(ni - 1) : StrLess(t[1 + r][1], t[2 + r][1])
                   /\ \A r \in 1..ni : \A k \in 1..n :
                         IF amounts(k, t[1 + r][1]) = {}
                         THEN t[1 + r][1 + k] = X
                         ELSE t[1 + r][1 + k] \in amounts(k, t[1 + r][1])
                   /\ {t[ni + 2 + r][1] : r \in 1..nt} = techs
                   /\ \A r \in 1..(nt - 1) :
                         StrLess(t[ni + 2 + r][1], t[ni + 3 + r][1])
                   /\ \A r \in 1..nt : \A k \in 1..n :
                         t[ni + 2 + r][1 + k] =
                             IF t[ni + 2 + r][1] \in sel(k).techniques
                             THEN t[ni + 2 + r][1] ELSE X

\* a table of two known cocktails with an ingredient that one of them lacks
C9_Witness ==
    /\ CompareAnswered
    /\ UnknownOf(out.args[1]) = {}
    /\ Len(out.args[1]) = 2
    /\ \E a \in ingredient_names(nodes[out.args[1][1]]) :
          a \notin ingredient_names(nodes[out.args[1][2]])

\* C10: once the graph is built, no query changes the node set, the entity
\* stored at a node, the edge set or a weight
C10_QueriesLeaveGraph ==
    [][Built => (nodes' = nodes /\ edges' = edges)]_vars

\* a query about a name that is no node has been answered over a graph that
\* has an edge
C10_Witness ==
    /\ CompareAnswered
    /\ UnknownOf(out.args[1]) # {}
    /\ DOMAIN edges # {}

----------------------------------------------------------------------------
(* Paths: a catalogue whose graph has a light detour around a heavy edge   *)

Ned == <<"N","e","d">>

mint == <<"m","i","n","t">>
soda == <<"s","o","d","a">>
salt == <<"s","a","l","t">>
beer == <<"b","e","e","r">>
wine == <<"w","i","n","e">>

\* an ingredient list with 1 oz of each name
OneOzOf(names) == [k \in 1..Len(names) |-> <<oz1, names[k]>>]

\* Mai and Mia score 7, each scores 16 with Rob, Ned scores 7 with Rob and
\* with Mia; the last row is another Mai, which scores less than 7 with all
PathRowPool ==
    {Row(Mai, NoneStr, SHAKE, OneOzOf(<<gin, lime, rum, mint, soda>>)),
     Row(Rob, NoneStr, SHAKE,
         OneOzOf(<<gin, lime, rum, mint, soda, salt, beer, wine>>)),
     Row(Mia, NoneStr, SHAKE, OneOzOf(<<mint, soda, salt, beer, wine>>)),
     Row(Ned, NoneStr, SHAKE, OneOzOf(<<salt, beer>>)),
     Row(Mai, NoneStr, STIR, OneOzOf(<<gin, lime>>))}

PathNames == {Mai, Rob, Mia, Ned}

InitPaths ==
    /\ rows \in SeqUpTo(PathRowPool, MaxCocktails)
    /\ cocktails = <<>>
    /\ nodes = <<>>
    /\ edges = <<>>
    /\ pc = "load"
    /\ i = 1
    /\ j = 1
    /\ out = NoResult

NextPaths ==
    \/ LoadRow
    \/ LoadDone
    \/ AddNode
    \/ AddNodesDone
    \/ AddEdgeStep
    \/ BuildDone
    \/ \E a, b \in PathNames : FindShortestPath(a, b)
    \/ \E a, b \in PathNames : MainFindShortestPath(a, b)
    \/ NextChoice

SpecPaths == InitPaths /\ [][NextPaths]_vars

\* no walk: a weight above every weight
Infinite == [num |-> 1, den |-> 0]

\* the least of a non-empty set of weights
LeastOf(S) == CHOOSE w \in S : \A v \in S : ~RatLess(v, w)

\* d[v] is the least weight of a walk from source to v of at most k edges;
\* the result is that for k more edges
RECURSIVE Relaxed(_, _)
Relaxed(d, k) ==
    IF k = 0 THEN d
    ELSE Relaxed([v \in NodeNames |->
                    LeastOf({d[v]} \cup
                            {RatAdd(d[u], edges[{u, v}]) :
                                u \in {w \in NodeNames : {w, v} \in DOMAIN edges}})],
                 k - 1)

\* the least weight of a walk of the graph from source to target
Distance(source, target) ==
    Relaxed([v \in NodeNames |-> IF v = source THEN Zero ELSE Infinite],
            Cardinality(NodeNames))[target]

\* the sum of the weights of the edges between consecutive names of p
WeightAlong(p) ==
    RatSum([k \in 1..(Len(p) - 1) |-> edges[{p[k], p[k + 1]}]], 1..(Len(p) - 1))

\* find_shortest_path, the method or the function of main.py, has answered
PathAnswered ==
    /\ pc = "answered"
    /\ out.op \in {"find_shortest_path", "main.find_shortest_path"}

\* the path the method returned, or the one the function of main.py printed
AnsweredPath ==
    IF out.op = "find_shortest_path" THEN out.value
    ELSE IF out.printed # <<>> /\ out.printed[1].kind = "path"
    THEN out.printed[1].path
    ELSE None

\* C11: for two node names joined by a chain of edges, find_shortest_path
\* gives a sequence of node names that starts with the first, ends with the
\* second, has an edge between every two consecutive names, and whose total
\* edge weight is the least of all walks between them; for a node and itself
\* it is the node alone
C11_ShortestPathIsLightest ==
    (/\ PathAnswered
     /\ HasNode(out.args[1])
     /\ HasNode(out.args[2])
     /\ Connected(out.args[1], out.args[2]))
    => LET p == AnsweredPath
       IN  /\ out.raised = ""
           /\ p # None
           /\ Len(p) >= 1
           /\ p[1] = out.args[1]
           /\ p[Len(p)] = out.args[2]
           /\ \A k \in 1..Len(p) : p[k] \in NodeNames
           /\ \A k \in 1..(Len(p) - 1) : {p[k], p[k + 1]} \in DOMAIN edges
           /\ ~RatLess(Distance(out.args[1], out.args[2]), WeightAlong(p))
           /\ ~RatLess(WeightAlong(p), Distance(out.args[1], out.args[2]))
           /\ (out.args[1] = out.args[2] => p = <<out.args[1]>>)

\* the method has returned a path of two edges between two nodes that an
\* edge joins: the detour is lighter than the edge
C11_Witness ==
    /\ pc = "answered"
    /\ out.op = "find_shortest_path"
    /\ out.raised = ""
    /\ out.value # None
    /\ Len(out.value) = 3
    /\ {out.args[1], out.args[2]} \in DOMAIN edges

====
